---------------------------- MODULE Spec2Model ----------------------------
(***************************************************************************)
(* Model of bed_lookup/_bed_lookup.pyx: the BedFile lookup object with its *)
(* two backends, the in-memory dictionary ('dt') and the sqlite database   *)
(* ('sq') kept in the file <bedfile>.db.                                   *)
(*                                                                         *)
(* Text is modelled at the granularity of tab-separated tokens.  A raw     *)
(* line of the bed file (without its line terminator) is the non-empty     *)
(* sequence of its tab-separated fields: "a\t1\t3\tg" is <<"a","1","3",    *)
(* "g">> and the empty line is <<"">>.  Tokens are atomic: the two         *)
(* whitespace tokens are "" and " ", no other token starts or ends with    *)
(* whitespace, only the token "g'" holds a quote, and chromosome tokens    *)
(* differ by more than letter case.                                        *)
(***************************************************************************)
EXTENDS Integers, Sequences, FiniteSets, TLC

VARIABLES
    bedfile,   \* the bed file on disk: [lines, nl]
    db,        \* the sqlite file <bedfile>.db on disk
    pc,        \* position of the caller: "none", "init_dict", "ready", "failed"
    _type,     \* self._type: "", "sq" or "dt"
    _dict,     \* self._dict: chromosome -> sequence of StartEnd
    i,         \* lines consumed so far by the loop of _init_dict
    info,      \* the INFO notice _init_sqlite wrote: "none", "existing", "creating"
    out        \* outcome of the last lookup() call on the object

vars == <<bedfile, db, pc, _type, _dict, i, info, out>>

(***************************************************************************)
(* Bounds.  max_len stands for the module global _max_len (1000000 in the  *)
(* source, a Python global a caller can rebind); it is scaled down so that *)
(* files on both sides of the threshold are enumerable.                    *)
(***************************************************************************)
max_len == 2

MaxLines == max_len + 1

(***************************************************************************)
(* Tokens and lines the files are drawn from.                              *)
(***************************************************************************)
Empty == <<"">>

LineSet ==
    { <<"a", "1", "3", "g">>,        \* a record
      <<"a", "1", "4", "h", "+">>,   \* overlaps the first; a fifth field
      <<"b", "3", "1", "g">>,        \* inverted interval, other chromosome
      <<"b", "2", "4", "g'">>,       \* a name holding a quote
      <<"b", "x", "3", "h">>,        \* non-integer start
      <<"a", "x", "3">>,             \* three fields
      <<"b", "2", "4", "">> }        \* four fields, the last one empty

RECURSIVE SeqsUpTo(_, _)
SeqsUpTo(S, n) ==
    IF n = 0 THEN { <<>> }
    ELSE LET shorter == SeqsUpTo(S, n - 1)
         IN  shorter \cup { Append(s, x) : s \in { t \in shorter : Len(t) = n - 1 }, x \in S }

\* A file is its lines and whether the last line ends with a newline.  An
\* empty file has no last line; nl is then TRUE by convention.
Files ==
    { [lines |-> ls, nl |-> b] : ls \in SeqsUpTo(LineSet, MaxLines), b \in BOOLEAN }
    \ { f \in [lines : {<<>>}, nl : {FALSE}] : TRUE }

Chromosomes == {"a", "b", "c"}

Positions == 1 .. 4

\* lookup() takes the location as an integer or as a string.
IntLoc(n) == [kind |-> "int", n |-> n, s |-> ""]

StrLoc(s) == [kind |-> "str", n |-> 0, s |-> s]

Digit == [s \in {"1", "2", "3", "4"} |-> CASE s = "1" -> 1 [] s = "2" -> 2
                                            [] s = "3" -> 3 [] s = "4" -> 4]

Locations == { IntLoc(n) : n \in Positions } \cup { StrLoc(s) : s \in DOMAIN Digit }

(***************************************************************************)
(* Python and shell primitives.                                            *)
(***************************************************************************)
IsSpace(tok) == tok \in {"", " "}

\* line.rstrip().split('\t'): rstrip removes every trailing whitespace
\* character, tabs included, so trailing whitespace-only fields vanish.
RECURSIVE Fields(_)
Fields(line) ==
    IF IsSpace(line[Len(line)])
    THEN IF Len(line) = 1 THEN Empty
         ELSE Fields(SubSeq(line, 1, Len(line) - 1))
    ELSE line

\* int(s) for a string token: its value, or ValueError.
PyInt(tok) ==
    IF tok \in DOMAIN Digit THEN [ok |-> TRUE, v |-> Digit[tok]]
    ELSE [ok |-> FALSE, v |-> 0]

\* str(n) for an integer within Positions.
PyStr(n) == CHOOSE s \in DOMAIN Digit : Digit[s] = n

\* wc -l: the number of newline characters in the file.
WcL(f) ==
    IF f.nl THEN Len(f.lines) ELSE Len(f.lines) - 1

\* __init__: the backend chosen for a file of n lines.
ChooseTypeGE(n) == IF n >= max_len THEN "sq" ELSE "dt"

ChooseType(n) == IF n > max_len THEN "sq" ELSE "dt"

(***************************************************************************)
(* Outcomes of a call.                                                     *)
(***************************************************************************)
Return(v) == [kind |-> "return", val |-> v]

Raise(e) == [kind |-> "raise", val |-> e]

NoOut == [chromosome |-> "", location |-> IntLoc(0), via |-> "none",
          ret |-> Return(""), diag |-> "none"]

(***************************************************************************)
(* The in-memory backend.                                                  *)
(***************************************************************************)
StartEnd(start, end, name) == [start |-> start, end |-> end, name |-> name]

\* VecHolder.push_back on self._dict[chr], creating the holder when absent.
push_back(d, chr, t) ==
    IF chr \in DOMAIN d THEN [d EXCEPT ![chr] = Append(@, t)]
    ELSE d @@ (chr :> <<t>>)

\* One iteration of the loop of _init_dict on one raw line: the dictionary
\* afterwards, or the exception that ends the construction.
init_dict_line_parse_first(d, line) ==
    LET f == Fields(line)
    IN  IF Len(f) < 2 THEN [ok |-> TRUE, d |-> d, err |-> ""]
        ELSE IF ~PyInt(f[2]).ok THEN [ok |-> FALSE, d |-> d, err |-> "ValueError"]
        ELSE IF Len(f) < 4 THEN [ok |-> TRUE, d |-> d, err |-> ""]
        ELSE IF ~PyInt(f[3]).ok THEN [ok |-> FALSE, d |-> d, err |-> "ValueError"]
        ELSE [ok |-> TRUE, err |-> "",
              d |-> push_back(d, f[1], StartEnd(PyInt(f[2]).v, PyInt(f[3]).v, f[4]))]

init_dict_line(d, line) ==
    LET f == Fields(line)
    IN  IF Len(f) < 4 THEN [ok |-> TRUE, d |-> d, err |-> ""]
        ELSE IF ~PyInt(f[2]).ok \/ ~PyInt(f[3]).ok
             THEN [ok |-> FALSE, d |-> d, err |-> "ValueError"]
        ELSE [ok |-> TRUE, err |-> "",
              d |-> push_back(d, f[1], StartEnd(PyInt(f[2]).v, PyInt(f[3]).v, f[4]))]

\* _lookup_dict: the outcome of the call and self._dict after it.
RECURSIVE first_match(_, _, _)
first_match(vec, loc, k) ==
    IF k > Len(vec) THEN ""
    ELSE IF vec[k].start < loc /\ loc < vec[k].end THEN vec[k].name
    ELSE first_match(vec, loc, k + 1)

lookup_dict_defaultdict(d, chromosome, location) ==
    LET loc == IF location.kind = "int" THEN [ok |-> TRUE, v |-> location.n]
               ELSE PyInt(location.s)
        dd == IF chromosome \in DOMAIN d THEN d ELSE d @@ (chromosome :> <<>>)
        answer == first_match(dd[chromosome], loc.v, 1)
    IN  IF ~loc.ok THEN [ret |-> Raise("ValueError"), diag |-> "none", d |-> d]
        ELSE IF answer # "" THEN [ret |-> Return(answer), diag |-> "none", d |-> dd]
        ELSE IF location.kind = "int"
             THEN [ret |-> Raise("TypeError"), diag |-> "none", d |-> dd]
        ELSE [ret |-> Return(""), diag |-> "location", d |-> dd]

lookup_dict(d, chromosome, location) ==
    LET loc == IF location.kind = "int" THEN [ok |-> TRUE, v |-> location.n]
               ELSE PyInt(location.s)
    IN  IF ~loc.ok THEN [ret |-> Raise("ValueError"), diag |-> "none", d |-> d]
        ELSE IF chromosome \notin DOMAIN d
             \* KeyError: the chromosome-level warning
             THEN [ret |-> Return(""), diag |-> "chromosome", d |-> d]
        ELSE LET answer == first_match(d[chromosome], loc.v, 1)
             IN  IF answer # "" THEN [ret |-> Return(answer), diag |-> "none", d |-> d]
                 \* "...Location '" + location + "'...": str + int raises
                 ELSE IF location.kind = "int"
                      THEN [ret |-> Raise("TypeError"), diag |-> "none", d |-> d]
                 ELSE [ret |-> Return(""), diag |-> "location", d |-> d]

(***************************************************************************)
(* The sqlite backend.  A table per chromosome with columns (name text,    *)
(* start int, end int); a value inserted as a quoted string into an int    *)
(* column is stored as an integer when it reads as one and as text         *)
(* otherwise.  Integers sort before text; text sorts bytewise.             *)
(***************************************************************************)
Affinity(tok) ==
    IF tok \in DOMAIN Digit THEN [t |-> "integer", n |-> Digit[tok], s |-> ""]
    ELSE [t |-> "text", n |-> 0, s |-> tok]

SqlInt(n) == [t |-> "integer", n |-> n, s |-> ""]

TextRank(s) ==
    CASE s = "" -> 0 [] s = " " -> 1 [] s = "+" -> 2 [] s = "a" -> 3 [] s = "b" -> 4
      [] s = "c" -> 5 [] s = "g" -> 6 [] s = "g'" -> 7 [] s = "h" -> 8 [] s = "x" -> 9

SqlLE(x, y) ==
    CASE x.t = "integer" /\ y.t = "integer" -> x.n <= y.n
      [] x.t = "integer" /\ y.t = "text"    -> TRUE
      [] x.t = "text"    /\ y.t = "integer" -> FALSE
      [] x.t = "text"    /\ y.t = "text"    -> TextRank(x.s) <= TextRank(y.s)

SqlLT(x, y) == SqlLE(x, y) /\ x # y

HasQuote(tok) == tok = "g'"

NoDb == [exists |-> FALSE, tables |-> <<>>, indexed |-> FALSE]

Row(f) == [name |-> f[4], start |-> Affinity(f[2]), end |-> Affinity(f[3])]

\* The loop of _init_sqlite from line k on.  committed is what the last
\* commit() made durable, pending what the open transaction holds.  An
\* sqlite error ends the construction and leaves the committed tables,
\* without indices, in the file.
RECURSIVE init_sqlite_lines(_, _, _, _)
init_sqlite_lines(lines, k, committed, pending) ==
    IF k > Len(lines)
    THEN [ok |-> TRUE, db |-> [exists |-> TRUE, tables |-> pending, indexed |-> TRUE]]
    ELSE LET f == Fields(lines[k])
             failed == [ok |-> FALSE,
                        db |-> [exists |-> TRUE, tables |-> committed, indexed |-> FALSE]]
         IN  IF Len(f) < 4 THEN init_sqlite_lines(lines, k + 1, committed, pending)
             ELSE IF HasQuote(f[1]) THEN failed
             ELSE LET created == IF f[1] \in DOMAIN pending THEN pending
                                 ELSE pending @@ (f[1] :> <<>>)
                      durable == IF f[1] \in DOMAIN pending THEN committed ELSE created
                  IN  IF HasQuote(f[2]) \/ HasQuote(f[3]) \/ HasQuote(f[4])
                      THEN [ok |-> FALSE,
                            db |-> [exists |-> TRUE, tables |-> durable, indexed |-> FALSE]]
                      ELSE init_sqlite_lines(lines, k + 1, durable,
                               [created EXCEPT ![f[1]] = Append(@, Row(f))])

\* _init_sqlite: reuse <bedfile>.db when it exists, else create it.
init_sqlite(f, d) ==
    IF d.exists THEN [ok |-> TRUE, db |-> d, info |-> "existing"]
    ELSE LET r == init_sqlite_lines(f.lines, 1, <<>>, <<>>)
         IN  [ok |-> r.ok, db |-> r.db, info |-> "creating"]

\* Position of row k before row j in the index on (start, end).
IndexBefore(rows, k, j) ==
    \/ SqlLT(rows[k].start, rows[j].start)
    \/ /\ rows[k].start = rows[j].start
       /\ \/ SqlLT(rows[k].end, rows[j].end)
          \/ rows[k].end = rows[j].end /\ k <= j

\* The chromosome and the location are pasted into the SQL text. A quote in
\* the chromosome ends its string literal early; an empty or blank location,
\* a lone sign or an unbalanced quote is no expression. Either way the
\* statement does not parse, which sqlite reports before it looks up the table.
SqlSyntaxError(chromosome, location) ==
    \/ HasQuote(chromosome)
    \/ IsSpace(location) \/ location = "+" \/ HasQuote(location)

\* _lookup_sqlite: SELECT name FROM chr INDEXED BY chr_start_end WHERE
\* location BETWEEN start AND end, then fetchone().
lookup_sqlite(d, chromosome, location) ==
    \* the statement does not parse: an OperationalError that is raised again
    IF SqlSyntaxError(chromosome, location)
    THEN [ret |-> Raise("OperationalError"), diag |-> "none"]
    \* OperationalError 'no such table'
    ELSE IF chromosome \notin DOMAIN d.tables
         THEN [ret |-> Return(""), diag |-> "chromosome"]
    \* 'no such index', 'no such column': raised again
    ELSE IF ~d.indexed \/ location \notin DOMAIN Digit
         THEN [ret |-> Raise("OperationalError"), diag |-> "none"]
    ELSE LET rows == d.tables[chromosome]
             p == SqlInt(Digit[location])
             hits == { k \in 1 .. Len(rows) :
                          SqlLE(rows[k].start, p) /\ SqlLE(p, rows[k].end) }
         IN  IF hits = {} THEN [ret |-> Return(""), diag |-> "location"]
             ELSE LET k == CHOOSE h \in hits : \A j \in hits : IndexBefore(rows, h, j)
                  IN  [ret |-> Return(rows[k].name), diag |-> "none"]

\* lookup(): dispatch on self._type; the sqlite path gets str(location).
lookup(t, d, database, chromosome, location) ==
    IF t = "sq"
    THEN LET r == lookup_sqlite(database, chromosome,
                      IF location.kind = "int" THEN PyStr(location.n) ELSE location.s)
         IN  [ret |-> r.ret, diag |-> r.diag, d |-> d, via |-> "sq"]
    ELSE LET r == lookup_dict(d, chromosome, location)
         IN  [ret |-> r.ret, diag |-> r.diag, d |-> r.d, via |-> "dt"]

(***************************************************************************)
(* The state machine.                                                      *)
(***************************************************************************)
Init ==
    /\ bedfile \in Files
    /\ db = NoDb
    /\ pc = "none"
    /\ _type = ""
    /\ _dict = <<>>
    /\ i = 0
    /\ info = "none"
    /\ out = NoOut

\* BedFile(bedfile): __init__ up to the loop of _init_dict, or through the
\* whole of _init_sqlite.
Construct ==
    /\ pc \in {"none", "ready", "failed"}
    /\ _type' = ChooseType(WcL(bedfile))
    /\ _dict' = <<>>
    /\ i' = 0
    /\ out' = NoOut
    /\ IF _type' = "sq"
       THEN LET r == init_sqlite(bedfile, db)
            IN  /\ db' = r.db
                /\ info' = r.info
                /\ pc' = IF r.ok THEN "ready" ELSE "failed"
       ELSE /\ pc' = "init_dict"
            /\ info' = "none"
            /\ db' = db
    /\ UNCHANGED bedfile

\* One iteration of "for line in infile" in _init_dict.
InitDictStep ==
    /\ pc = "init_dict"
    /\ i < Len(bedfile.lines)
    /\ LET r == init_dict_line(_dict, bedfile.lines[i + 1])
       IN  IF r.ok
           THEN /\ _dict' = r.d
                /\ i' = i + 1
                /\ pc' = pc
           ELSE /\ pc' = "failed"
                /\ UNCHANGED <<_dict, i>>
    /\ UNCHANGED <<bedfile, db, _type, info, out>>

\* The loop of _init_dict ends and __init__ returns.
InitDictReturn ==
    /\ pc = "init_dict"
    /\ i = Len(bedfile.lines)
    /\ pc' = "ready"
    /\ UNCHANGED <<bedfile, db, _type, _dict, i, info, out>>

\* b.lookup(chromosome, location)
Lookup ==
    /\ pc = "ready"
    /\ \E chromosome \in Chromosomes, location \in Locations :
          LET r == lookup(_type, _dict, db, chromosome, location)
          IN  /\ out' = [chromosome |-> chromosome, location |-> location,
                         via |-> r.via, ret |-> r.ret, diag |-> r.diag]
              /\ _dict' = r.d
    /\ UNCHANGED <<bedfile, db, pc, _type, i, info>>

Next == Construct \/ InitDictStep \/ InitDictReturn \/ Lookup

Spec == Init /\ [][Next]_vars

(***************************************************************************)
(* Vocabulary of the properties, read off the file's raw lines.            *)
(***************************************************************************)
\* The position a location denotes.
PosOf(location) == IF location.kind = "int" THEN location.n ELSE Digit[location.s]

IsInteger(tok) == tok \in DOMAIN Digit

\* A line with at least four tab-separated fields.
FourFields(line) == Len(line) >= 4

\* A line that states a record: four or more fields, integer start and end.
IsRecord(line) == FourFields(line) /\ IsInteger(line[2]) /\ IsInteger(line[3])

RecordOf(line) == StartEnd(Digit[line[2]], Digit[line[3]], line[4])

\* The records of chromosome chr among the given lines, in file order.
RECURSIVE RecordsOf(_, _)
RecordsOf(lines, chr) ==
    IF lines = <<>> THEN <<>>
    ELSE LET rest == RecordsOf(Tail(lines), chr)
             ln == Head(lines)
         IN  IF IsRecord(ln) /\ ln[1] = chr THEN <<RecordOf(ln)>> \o rest ELSE rest

Covers(r, p) == r.start < p /\ p < r.end

\* The name of the first record of vec covering p, "" when there is none.
FirstCover(vec, p) ==
    LET K == { k \in 1 .. Len(vec) : Covers(vec[k], p) }
    IN  IF K = {} THEN ""
        ELSE vec[CHOOSE k \in K : \A j \in K : k <= j].name

Looked == out.via # "none"

\* C1: on the in-memory backend a lookup on a chromosome of the index returns
\* the name of the first record of that chromosome, in file order, with
\* start < p < end, and the empty string when no record qualifies.
C1_FirstMatchInFileOrder ==
    (Looked /\ out.via = "dt" /\ out.chromosome \in DOMAIN _dict)
        => out.ret = Return(FirstCover(_dict[out.chromosome], PosOf(out.location)))

\* C2: on either backend a non-empty result of lookup(chr, p) is the name of
\* a record of chr with start < p < end, so a position equal to a bound of a
\* record and inside no other record is not found.
C2_ExclusiveBounds ==
    (Looked /\ out.ret.kind = "return" /\ out.ret.val # "")
        => \E k \in 1 .. Len(RecordsOf(bedfile.lines, out.chromosome)) :
              LET r == RecordsOf(bedfile.lines, out.chromosome)[k]
              IN  r.name = out.ret.val /\ Covers(r, PosOf(out.location))

\* C3: when the chromosome is absent or no record of it covers the position,
\* lookup completes normally and returns the empty string, for a position
\* given as an integer or as a string of digits (stated for a service that
\* built its index itself).
C3_NotFoundNeverRaises ==
    (Looked /\ info # "existing" /\ \A k \in 1 .. Len(RecordsOf(bedfile.lines, out.chromosome)) :
                  LET r == RecordsOf(bedfile.lines, out.chromosome)[k]
                  IN  ~(r.start <= PosOf(out.location) /\ PosOf(out.location) <= r.end))
        => out.ret = Return("")

\* C4: a lookup on a chromosome that never appears in the file returns ""
\* with the chromosome-level diagnostic; a lookup on a present chromosome at
\* a position outside all of its intervals returns "" with the
\* position-level diagnostic.
C4_DiagnosticMatchesCause ==
    Looked =>
        LET recs == RecordsOf(bedfile.lines, out.chromosome)
            named == \E k \in 1 .. Len(bedfile.lines) :
                        bedfile.lines[k][1] = out.chromosome
        IN  /\ ~named => out.ret = Return("") /\ out.diag = "chromosome"
            /\ (recs # <<>> /\ \A k \in 1 .. Len(recs) :
                                    ~Covers(recs[k], PosOf(out.location)))
                 => out.ret = Return("") /\ out.diag = "location"

\* C5 as stated: the in-memory backend is chosen exactly when the line count
\* n is below the threshold; n >= T, n = T included, goes to the store.
C5_AtThresholdUsesStore ==
    pc = "ready" => (_type = "dt" <=> WcL(bedfile) < max_len)

\* C5 amended: the backend is decided at construction from the line count n:
\* n <= T (n = T included) builds the in-memory index eagerly and serves
\* every lookup from it, n > T loads nothing into memory and routes every
\* lookup through the store; the choice holds for the object's lifetime.
C5_AboveThresholdUsesStore ==
    /\ pc # "none" => (_type = "dt" <=> WcL(bedfile) <= max_len)
    /\ pc # "none" => (_type = "sq" <=> WcL(bedfile) > max_len)
    /\ (pc = "ready" /\ _type = "dt") => i = Len(bedfile.lines)
    /\ _type = "sq" => (_dict = <<>> /\ i = 0)
    /\ Looked => (pc = "ready" /\ out.via = _type)

C5_Witness ==
    /\ pc = "ready"
    /\ WcL(bedfile) = max_len
    /\ _type = "dt"
    /\ _dict # <<>>
    /\ out.via = "dt"

\* C6: a file with a line of four or more fields whose start or end is not
\* an integer cannot be constructed from, on either backend.
C6_NonIntegerIsFatal ==
    (\E k \in 1 .. Len(bedfile.lines) :
        LET ln == bedfile.lines[k]
        IN  FourFields(ln) /\ (~IsInteger(ln[2]) \/ ~IsInteger(ln[3])))
        => pc # "ready"

NotShort(line) == ~(Len(line) < 4)

RECURSIVE DictFrom(_, _)
DictFrom(lines, d) ==
    IF lines = <<>> THEN [ok |-> TRUE, d |-> d]
    ELSE LET r == init_dict_line(d, Head(lines))
         IN  IF r.ok THEN DictFrom(Tail(lines), r.d) ELSE [ok |-> FALSE, d |-> d]

\* C7: a line with fewer than four tab-separated fields adds no record and
\* no key and never fails the build: at every point of the build the index
\* is the one built from the lines read so far with the short lines
\* removed, a build only fails on a line that is not short, and the sqlite
\* database created from a file is the one created without its short lines.
C7_ShortLinesSkipped ==
    /\ (_type = "dt" /\ pc \in {"init_dict", "ready"}) =>
          LET ref == DictFrom(SelectSeq(SubSeq(bedfile.lines, 1, i), NotShort), <<>>)
          IN  ref.ok /\ _dict = ref.d
    /\ (_type = "dt" /\ pc = "failed") =>
          /\ NotShort(bedfile.lines[i + 1])
          /\ ~DictFrom(SelectSeq(SubSeq(bedfile.lines, 1, i + 1), NotShort), <<>>).ok
    /\ (_type = "sq" /\ info = "creating") =>
          LET ref == init_sqlite_lines(SelectSeq(bedfile.lines, NotShort), 1, <<>>, <<>>)
          IN  db = ref.db /\ (pc = "ready" <=> ref.ok)

C7_Witness ==
    /\ pc = "ready"
    /\ _type = "dt"
    /\ _dict # <<>>
    /\ \E k \in 1 .. Len(bedfile.lines) : ~NotShort(bedfile.lines[k])

\* What constructing from the file alone, with no earlier state, gives.
FreshSqlite(f) == init_sqlite_lines(f.lines, 1, <<>>, <<>>)

FreshOk(f) ==
    IF ChooseType(WcL(f)) = "sq" THEN FreshSqlite(f).ok ELSE DictFrom(f.lines, <<>>).ok

FreshAnswer(f, chromosome, location) ==
    lookup(ChooseType(WcL(f)), DictFrom(f.lines, <<>>).d, FreshSqlite(f).db,
           chromosome, location).ret

\* C8: the outcome of constructing from a file and of a lookup on the result
\* depends only on the contents of the file, not on an earlier construction
\* or on a database file found at construction.
C8_PureFunctionOfFile ==
    /\ pc = "ready" => FreshOk(bedfile)
    /\ pc = "failed" => ~FreshOk(bedfile)
    /\ Looked => out.ret = FreshAnswer(bedfile, out.chromosome, out.location)

\* C9: during and after the in-memory build, each chromosome's sequence is
\* the subsequence, in file order, of the lines read so far that have four
\* or more fields and name it, and a key exists exactly when there is one.
C9_IndexIsFileOrderSubsequence ==
    (_type = "dt" /\ pc \in {"init_dict", "ready"}) =>
        /\ DOMAIN _dict \subseteq Chromosomes
        /\ \A chr \in Chromosomes :
              LET recs == RecordsOf(SubSeq(bedfile.lines, 1, i), chr)
              IN  IF recs = <<>> THEN chr \notin DOMAIN _dict
                  ELSE chr \in DOMAIN _dict /\ _dict[chr] = recs

\* C10: a lookup leaves the chromosome keys and every record sequence of the
\* in-memory index as they were, also when the chromosome is absent or no
\* record covers the position, and asking the same question again gives the
\* same outcome.
C10_LookupLeavesIndex ==
    [][(pc = "ready" /\ pc' = "ready" /\ out' # NoOut) =>
          /\ _dict' = _dict
          /\ db' = db
          /\ (out.chromosome = out'.chromosome /\ out.location = out'.location
                /\ Looked) => out' = out]_vars

C10_Witness ==
    /\ pc = "ready"
    /\ out.via = "dt"
    /\ out.diag = "chromosome"
    /\ _dict # <<>>
    /\ out.chromosome \notin DOMAIN _dict

====
